---- MODULE Spec2Model ----
(***************************************************************************)
(* Model of the hotel refund pipeline: file-name resolution, record        *)
(* normalisation (src/src/cleaning.py), the SQRI score (src/src/metrics.py)*)
(* and the duplicate check (src/src/validation.py).                        *)
(*                                                                         *)
(* Text is a sequence of one-character strings, so that lower-casing,      *)
(* substring search, replace, split and strip are computed character by    *)
(* character.  Money is an integer number of pence (1000.0 is 100000).     *)
(* Every function of the source is an operator; a call is a small state    *)
(* machine: pc = "call" holds the arguments, the action applies the        *)
(* function, pc = "return" holds the result.  clean_all_files is modelled  *)
(* step by step (glob/sort, one clean_single_file per step, concat).       *)
(***************************************************************************)
EXTENDS Integers, Sequences, FiniteSets, TLC

VARIABLES pc, args, locals, ret

vars == <<pc, args, locals, ret>>

\* pandas NA / NaN / NaT.  read_csv reads an empty field as NA, so no text
\* cell is the empty text.  A nullable number is Null or Num(n), a nullable
\* date is Null or <<year, month, day>>.
Null == <<>>

Num(n) == <<n>>

Val(x) == x[1]

NoLocals == <<>>

NoRet == "<no result>"

-----------------------------------------------------------------------------
(* Text helpers (Python str methods, pandas .str accessors)                *)

RECURSIVE Cat(_)
\* concatenation of a sequence of texts
Cat(ss) ==
    IF ss = <<>> THEN <<>> ELSE Head(ss) \o Cat(Tail(ss))

UpperCase ==
    <<"A", "B", "C", "D", "E", "F", "G", "H", "I", "J", "K", "L", "M",
      "N", "O", "P", "Q", "R", "S", "T", "U", "V", "W", "X", "Y", "Z">>

LowerCase ==
    <<"a", "b", "c", "d", "e", "f", "g", "h", "i", "j", "k", "l", "m",
      "n", "o", "p", "q", "r", "s", "t", "u", "v", "w", "x", "y", "z">>

LowerChar(c) ==
    IF \E k \in 1..26 : UpperCase[k] = c
    THEN LowerCase[CHOOSE k \in 1..26 : UpperCase[k] = c]
    ELSE c

\* str.lower()
Lower(s) ==
    [i \in 1..Len(s) |-> LowerChar(s[i])]

\* s[i:] starts with pat
StartsWithAt(s, i, pat) ==
    /\ i + Len(pat) - 1 <= Len(s)
    /\ \A k \in 1..Len(pat) : s[i + k - 1] = pat[k]

\* pat in s
Contains(s, pat) ==
    \E i \in 1..(Len(s) + 1) : StartsWithAt(s, i, pat)

RECURSIVE RemoveAllFrom(_, _, _)
RemoveAllFrom(s, i, pat) ==
    IF i > Len(s) THEN <<>>
    ELSE IF StartsWithAt(s, i, pat) THEN RemoveAllFrom(s, i + Len(pat), pat)
    ELSE <<s[i]>> \o RemoveAllFrom(s, i + 1, pat)

\* s.replace(pat, ""): every non-overlapping occurrence, left to right
RemoveAll(s, pat) ==
    RemoveAllFrom(s, 1, pat)

RECURSIVE SplitFrom(_, _, _, _)
SplitFrom(s, i, sep, cur) ==
    IF i > Len(s) THEN <<cur>>
    ELSE IF s[i] = sep THEN <<cur>> \o SplitFrom(s, i + 1, sep, <<>>)
    ELSE SplitFrom(s, i + 1, sep, Append(cur, s[i]))

\* s.split(sep) for a one-character separator
Split(s, sep) ==
    SplitFrom(s, 1, sep, <<>>)

RECURSIVE LStrip(_)
LStrip(s) ==
    IF s # <<>> /\ Head(s) = " " THEN LStrip(Tail(s)) ELSE s

RECURSIVE RStrip(_)
RStrip(s) ==
    IF s # <<>> /\ s[Len(s)] = " " THEN RStrip(SubSeq(s, 1, Len(s) - 1)) ELSE s

\* s.strip()
Strip(s) ==
    RStrip(LStrip(s))

RECURSIVE DropTrailing(_, _)
DropTrailing(s, c) ==
    IF s # <<>> /\ s[Len(s)] = c THEN DropTrailing(SubSeq(s, 1, Len(s) - 1), c) ELSE s

\* Path(filename).name: the last component of the path
PathName(filename) ==
    LET parts == Split(DropTrailing(filename, "/"), "/")
    IN  parts[Len(parts)]

-----------------------------------------------------------------------------
(* Literals                                                                *)

DotCsv == <<".", "c", "s", "v">>
T_brighton == <<"b", "r", "i", "g", "h", "t", "o", "n">>
T_Brighton == <<"B", "r", "i", "g", "h", "t", "o", "n">>
T_newheaven == <<"n", "e", "w", "h", "e", "a", "v", "e", "n">>
T_newhaven == <<"n", "e", "w", "h", "a", "v", "e", "n">>
T_Newhaven == <<"N", "e", "w", "h", "a", "v", "e", "n">>
T_NewHeaven == <<"N", "e", "w", "H", "e", "a", "v", "e", "n">>
T_Leeds == <<"L", "e", "e", "d", "s">>
T_november == <<"n", "o", "v", "e", "m", "b", "e", "r">>
T_nov == <<"n", "o", "v">>
T_Nov == <<"N", "o", "v">>
T_december == <<"d", "e", "c", "e", "m", "b", "e", "r">>
T_dec == <<"d", "e", "c">>
T_january == <<"j", "a", "n", "u", "a", "r", "y">>
T_January == <<"J", "a", "n", "u", "a", "r", "y">>
T_jan == <<"j", "a", "n">>
T_March == <<"M", "a", "r", "c", "h">>
T_refund == <<"r", "e", "f", "u", "n", "d">>
T_Refund == <<"R", "e", "f", "u", "n", "d">>
T_nan == <<"n", "a", "n">>
T_Nov2025 == <<"N", "o", "v", "-", "2", "0", "2", "5">>
T_Dec2025 == <<"D", "e", "c", "-", "2", "0", "2", "5">>
T_Jan2026 == <<"J", "a", "n", "-", "2", "0", "2", "6">>
T_accomm == <<"a", "c", "c", "o", "m", "m">>
T_fandb == <<"f", "&", "b">>
T_food == <<"f", "o", "o", "d">>
T_bar == <<"b", "a", "r">>
T_Accommodation == <<"A", "c", "c", "o", "m", "m", "o", "d", "a", "t", "i", "o", "n">>
T_accommodation == <<"a", "c", "c", "o", "m", "m", "o", "d", "a", "t", "i", "o", "n">>
T_FandB == <<"F", "&", "B">>
T_Other == <<"O", "t", "h", "e", "r">>

-----------------------------------------------------------------------------
(* parse_site_and_month_from_filename                                      *)

site_map(key) ==
    CASE key = T_brighton -> T_Brighton
      [] key = T_newheaven -> T_Newhaven
      [] key = T_newhaven -> T_Newhaven
      [] OTHER -> Null

month_map(key) ==
    CASE key \in {T_november, T_nov} -> T_Nov2025
      [] key \in {T_december, T_dec} -> T_Dec2025
      [] key \in {T_january, T_jan} -> T_Jan2026
      [] OTHER -> Null

ValueError(what) == [exc |-> "ValueError", what |-> what]

IsError(r) == "exc" \in DOMAIN r

parse_site_and_month_from_filename(filename) ==
    LET name == PathName(filename)
        parts == Split(RemoveAll(name, DotCsv), "_")
    IN  IF Len(parts) < 2 THEN ValueError("format")
        ELSE LET raw_site == Strip(parts[1])
                 raw_month == Lower(Strip(parts[2]))
                 site == IF site_map(Lower(raw_site)) # Null
                         THEN site_map(Lower(raw_site)) ELSE raw_site
             IN  IF month_map(raw_month) = Null THEN ValueError("month")
                 ELSE [site |-> site, file_month |-> month_map(raw_month)]

-----------------------------------------------------------------------------
(* Data frames: [columns |-> set of column names, rows |-> sequence of     *)
(* rows], a row being a function from the columns to cells.  Row i of the  *)
(* sequence is the row at position i of the pandas index.                  *)

DataFrame(columns, rows) == [columns |-> columns, rows |-> rows]

\* df[col] = series (a new column, or an existing one overwritten)
WithColumn(df, col, series) ==
    DataFrame(df.columns \cup {col},
              [i \in 1..Len(df.rows) |->
                  [c \in df.columns \cup {col} |->
                      IF c = col THEN series[i] ELSE df.rows[i][c]]])

RECURSIVE MaskFrom(_, _, _)
MaskFrom(rows, mask, i) ==
    IF i > Len(rows) THEN <<>>
    ELSE (IF mask[i] THEN <<rows[i]>> ELSE <<>>) \o MaskFrom(rows, mask, i + 1)

\* df.loc[mask] / df[mask]: the rows whose mask is True, in their order
Loc(df, mask) ==
    DataFrame(df.columns, MaskFrom(df.rows, mask, 1))

\* series.fillna(other): positions still null take other's value
FillNa(series, other) ==
    [i \in 1..Len(series) |-> IF series[i] = Null THEN other[i] ELSE series[i]]

\* .astype(str) of one cell.  A missing value becomes the text "nan" on an
\* object column (args.na_as_text) and stays missing on a string-dtype
\* column that keeps NA; both are outcomes pandas builds produce.
astype_str(cell) ==
    IF cell = Null THEN (IF args.na_as_text THEN T_nan ELSE Null) ELSE cell

\* .str.contains(pat, case=False, na=False) of one cell, pat free of regex
\* metacharacters
str_contains(cell, pat) ==
    IF cell = Null THEN FALSE ELSE Contains(Lower(cell), Lower(pat))

-----------------------------------------------------------------------------
(* pd.to_numeric(errors="coerce") and pd.to_datetime(errors="coerce",      *)
(* dayfirst=True), on the cell forms the model draws                       *)

Digits == {"0", "1", "2", "3", "4", "5", "6", "7", "8", "9"}

DigitValue(c) ==
    CASE c = "0" -> 0 [] c = "1" -> 1 [] c = "2" -> 2 [] c = "3" -> 3 [] c = "4" -> 4
      [] c = "5" -> 5 [] c = "6" -> 6 [] c = "7" -> 7 [] c = "8" -> 8 [] c = "9" -> 9

IsDigits(s) == s # <<>> /\ \A i \in 1..Len(s) : s[i] \in Digits

RECURSIVE NatOf(_)
NatOf(s) ==
    IF s = <<>> THEN 0 ELSE 10 * NatOf(SubSeq(s, 1, Len(s) - 1)) + DigitValue(s[Len(s)])

\* a decimal text with at most two decimals, in pence; Null when unparsable
UnsignedPence(s) ==
    LET parts == Split(s, ".")
    IN  IF Len(parts) = 1 /\ IsDigits(parts[1]) THEN Num(100 * NatOf(parts[1]))
        ELSE IF Len(parts) = 2 /\ IsDigits(parts[1]) /\ IsDigits(parts[2]) /\ Len(parts[2]) <= 2
        THEN Num(100 * NatOf(parts[1])
                 + (IF Len(parts[2]) = 1 THEN 10 * NatOf(parts[2]) ELSE NatOf(parts[2])))
        ELSE Null

\* pd.to_numeric(cell, errors="coerce") of one cell, the cell being the text
\* of the number as the file holds it
to_numeric(cell) ==
    IF cell = Null THEN Null
    ELSE LET s == Strip(cell)
         IN  IF s # <<>> /\ Head(s) = "-"
             THEN (IF UnsignedPence(Tail(s)) = Null THEN Null
                   ELSE Num(0 - Val(UnsignedPence(Tail(s)))))
             ELSE UnsignedPence(s)

Abs(x) == IF x < 0 THEN 0 - x ELSE x

\* pd.to_datetime(errors="coerce", dayfirst=True) of one cell of a column
\* whose dates are all written NN/NN/NNNN: day first when that is a date,
\* month first otherwise, NaT for any other text; <<year, month, day>>
to_datetime(cell) ==
    IF cell = Null THEN Null
    ELSE LET parts == Split(cell, "/")
         IN  IF /\ Len(parts) = 3
                /\ \A k \in 1..3 : IsDigits(parts[k])
                /\ Len(parts[1]) <= 2 /\ Len(parts[2]) <= 2 /\ Len(parts[3]) = 4
             THEN LET a == NatOf(parts[1])
                      b == NatOf(parts[2])
                      y == NatOf(parts[3])
                  IN  IF a \in 1..31 /\ b \in 1..12 THEN <<y, b, a>>
                      ELSE IF a \in 1..12 /\ b \in 1..31 THEN <<y, a, b>>
                      ELSE Null
             ELSE Null

-----------------------------------------------------------------------------
(* cleaning.py                                                             *)

\* CleaningConfig defaults, amounts in pence
DefaultMaxRefundAmount == 100000

DefaultHighValueThreshold == 10000

CleaningConfig(max_refund_amount, refund_keyword) ==
    [max_refund_amount |-> max_refund_amount,
     refund_keyword |-> refund_keyword,
     high_value_threshold |-> DefaultHighValueThreshold]

DefaultConfig == CleaningConfig(DefaultMaxRefundAmount, T_refund)

\* str(c).startswith("Unnamed:") on the column names the model uses
IsUnnamed(c) == c \in {"Unnamed: 0", "Unnamed: 1"}

drop_unnamed_columns(df) ==
    LET keep == {c \in df.columns : ~IsUnnamed(c)}
    IN  DataFrame(keep, [i \in 1..Len(df.rows) |-> [c \in keep |-> df.rows[i][c]]])

\* the data frame with site and file_month set on every row, or the ValueError
add_file_metadata(df, filename) ==
    LET r == parse_site_and_month_from_filename(filename)
    IN  IF IsError(r) THEN r
        ELSE WithColumn(WithColumn(df, "site", [i \in 1..Len(df.rows) |-> r.site]),
                        "file_month", [i \in 1..Len(df.rows) |-> r.file_month])

is_refund_row(df, config) ==
    IF "BUSINESS_FORMAT_DATE" \notin df.columns
    THEN [i \in 1..Len(df.rows) |-> FALSE]
    ELSE [i \in 1..Len(df.rows) |->
            str_contains(astype_str(df.rows[i]["BUSINESS_FORMAT_DATE"]), config.refund_keyword)]

\* build_transaction_date with BUSINESS_TIME tried before BUSINESS_DATE
build_transaction_date_time_first(df) ==
    LET dt0 == [i \in 1..Len(df.rows) |-> Null]
        dt1 == IF "BUSINESS_TIME" \in df.columns
               THEN FillNa(dt0, [i \in 1..Len(df.rows) |-> to_datetime(df.rows[i]["BUSINESS_TIME"])])
               ELSE dt0
        dt2 == IF "BUSINESS_DATE" \in df.columns
               THEN FillNa(dt1, [i \in 1..Len(df.rows) |-> to_datetime(df.rows[i]["BUSINESS_DATE"])])
               ELSE dt1
        dt3 == IF "BUSINESS_FORMAT_DATE" \in df.columns
               THEN FillNa(dt2, [i \in 1..Len(df.rows) |-> to_datetime(df.rows[i]["BUSINESS_FORMAT_DATE"])])
               ELSE dt2
    IN  dt3

build_transaction_date(df) ==
    LET dt0 == [i \in 1..Len(df.rows) |-> Null]
        dt1 == IF "BUSINESS_DATE" \in df.columns
               THEN FillNa(dt0, [i \in 1..Len(df.rows) |-> to_datetime(df.rows[i]["BUSINESS_DATE"])])
               ELSE dt0
        dt2 == IF "BUSINESS_TIME" \in df.columns
               THEN FillNa(dt1, [i \in 1..Len(df.rows) |-> to_datetime(df.rows[i]["BUSINESS_TIME"])])
               ELSE dt1
        dt3 == IF "BUSINESS_FORMAT_DATE" \in df.columns
               THEN FillNa(dt2, [i \in 1..Len(df.rows) |-> to_datetime(df.rows[i]["BUSINESS_FORMAT_DATE"])])
               ELSE dt2
    IN  dt3

\* the ceiling test with < for <=
WithinCeiling_exclusive(amt, max_refund_amount) ==
    IF amt # Null /\ Val(amt) < max_refund_amount THEN amt ELSE Null

\* amt.where(amt <= max_refund_amount) of one value
WithinCeiling(amt, max_refund_amount) ==
    IF amt # Null /\ Val(amt) <= max_refund_amount THEN amt ELSE Null

build_refund_amount(df, config) ==
    IF "ROOM" \notin df.columns
    THEN [i \in 1..Len(df.rows) |-> Null]
    ELSE [i \in 1..Len(df.rows) |->
            LET amt == to_numeric(df.rows[i]["ROOM"])
            IN  WithinCeiling(IF amt = Null THEN Null ELSE Num(Abs(Val(amt))),
                              config.max_refund_amount)]

\* lines 154-158 for one cell: the two .loc assignments in their order, then
\* fillna("Other")
CategoryOf(cell) ==
    LET s == IF astype_str(cell) = Null THEN Null ELSE Lower(astype_str(cell))
        c0 == Null
        c1 == IF str_contains(s, T_accomm) THEN T_Accommodation ELSE c0
        c2 == IF str_contains(s, T_fandb) \/ str_contains(s, T_food) \/ str_contains(s, T_bar)
              THEN T_FandB ELSE c1
    IN  IF c2 = Null THEN T_Other ELSE c2

refund_category(df) ==
    IF "BUSINESS_FORMAT_DATE" \in df.columns
    THEN [i \in 1..Len(df.rows) |-> CategoryOf(df.rows[i]["BUSINESS_FORMAT_DATE"])]
    ELSE [i \in 1..Len(df.rows) |-> T_Other]

\* df.loc[refund_mask] of clean_single_file
RefundRows(df, config) ==
    Loc(df, is_refund_row(df, config))

\* every row kept, a null refund_amount included
KeepAllRows(df) == df

\* df[df["refund_amount"].notna()]
DropUnusable(df) ==
    Loc(df, [i \in 1..Len(df.rows) |-> df.rows[i]["refund_amount"] # Null])

\* clean_single_file on the frame read from the file: the cleaned frame, or
\* the ValueError of the file name
clean_single_file(filename, raw, config) ==
    LET tagged == add_file_metadata(drop_unnamed_columns(raw), PathName(filename))
    IN  IF IsError(tagged) THEN tagged
        ELSE LET refunds == RefundRows(tagged, config)
                 dated == WithColumn(refunds, "transaction_date", build_transaction_date(refunds))
                 keyed == WithColumn(dated, "refund_amount", build_refund_amount(dated, config))
                 usable == DropUnusable(keyed)
             IN  WithColumn(usable, "refund_category", refund_category(usable))

-----------------------------------------------------------------------------
(* clean_all_files: glob, sorted, one clean_single_file per file, concat;  *)
(* validate_dataset on the result                                          *)

RECURSIVE SumOver(_, _)
\* the sum of f[x] over the x of S
SumOver(S, f) ==
    IF S = {} THEN 0
    ELSE LET x == CHOOSE y \in S : TRUE
         IN  f[x] + SumOver(S \ {x}, f)

\* the characters of the model in code-point order
CodePointOrder ==
    <<" ", "&", ",", "-", ".", "/">>
    \o <<"0", "1", "2", "3", "4", "5", "6", "7", "8", "9">>
    \o UpperCase \o <<"_">> \o LowerCase

CodePoint(c) == CHOOSE k \in 1..Len(CodePointOrder) : CodePointOrder[k] = c

\* a < b for two str (and so for two paths of one directory)
StrLess(a, b) ==
    \E k \in 1..(Len(a) + 1) :
        /\ k <= Len(b)
        /\ \A j \in 1..(k - 1) : a[j] = b[j]
        /\ (k = Len(a) + 1 \/ CodePoint(a[k]) < CodePoint(b[k]))

RECURSIVE InsertSorted(_, _)
InsertSorted(q, x) ==
    IF q = <<>> THEN <<x>>
    ELSE IF StrLess(x, Head(q)) THEN <<x>> \o q
    ELSE <<Head(q)>> \o InsertSorted(Tail(q), x)

\* the paths left in the order of their enumeration
unsorted(q) == q

RECURSIVE sorted(_)
\* sorted(paths)
sorted(q) ==
    IF q = <<>> THEN <<>> ELSE InsertSorted(sorted(Tail(q)), Head(q))

\* raw_dir.glob("*.csv"): the names of the directory that end in ".csv"
glob_csv(raw_dir) ==
    {n \in DOMAIN raw_dir :
        Len(n) >= Len(DotCsv) /\ StartsWithAt(n, Len(n) - Len(DotCsv) + 1, DotCsv)}

\* the orders in which a set can be enumerated
Enumerations(S) ==
    {q \in [1..Cardinality(S) -> S] : \A i, j \in 1..Cardinality(S) : q[i] = q[j] => i = j}

RECURSIVE AllColumns(_)
AllColumns(frames) ==
    IF frames = <<>> THEN {} ELSE Head(frames).columns \cup AllColumns(Tail(frames))

RECURSIVE ConcatRows(_, _)
ConcatRows(frames, columns) ==
    IF frames = <<>> THEN <<>>
    ELSE [i \in 1..Len(Head(frames).rows) |->
             [c \in columns |->
                 IF c \in Head(frames).columns THEN Head(frames).rows[i][c] ELSE Null]]
         \o ConcatRows(Tail(frames), columns)

\* pd.concat(frames, ignore_index=True): the union of the columns, a cell of
\* a column its frame lacks being NA, the rows of the frames one after another
concat(frames) ==
    DataFrame(AllColumns(frames), ConcatRows(frames, AllColumns(frames)))

FileNotFoundError == [exc |-> "FileNotFoundError", what |-> "no csv"]

\* duplicate_check and validate_dataset (validation.py)

KeyCols == <<"site", "transaction_date", "RECEIPT_NO", "refund_amount">>

KeyOf(row) == [k \in 1..Len(KeyCols) |-> row[KeyCols[k]]]

\* df.duplicated(subset=key_cols) with the default keep="first"
duplicated_keep_first(df) ==
    [i \in 1..Len(df.rows) |->
        \E j \in 1..(i - 1) : KeyOf(df.rows[j]) = KeyOf(df.rows[i])]

\* df.duplicated(subset=key_cols, keep=False)
duplicated_keep_false(df) ==
    [i \in 1..Len(df.rows) |->
        \E j \in 1..Len(df.rows) : j # i /\ KeyOf(df.rows[j]) = KeyOf(df.rows[i])]

CountTrue(mask) == Cardinality({i \in 1..Len(mask) : mask[i]})

duplicate_check(df) ==
    LET missing == {k \in 1..Len(KeyCols) : KeyCols[k] \notin df.columns}
    IN  IF missing # {}
        THEN [duplicate_rows |-> 0, note_missing_key_cols |-> Cardinality(missing)]
        ELSE LET dup_mask == duplicated_keep_false(df)
                 dup_rows == CountTrue(dup_mask)
                 marked == Loc(df, dup_mask).rows
                 distinct_keys == IF dup_rows # 0
                                  THEN Cardinality({KeyOf(marked[i]) : i \in 1..Len(marked)})
                                  ELSE 0
             IN  [duplicate_rows |-> dup_rows, distinct_duplicate_keys |-> distinct_keys]

\* null_audit's count for one column: <<rows that are NA, rows>>, every row
\* counting as NA when the column is absent
null_audit(df, col) ==
    IF col \in df.columns
    THEN <<Cardinality({i \in 1..Len(df.rows) : df.rows[i][col] = Null}), Len(df.rows)>>
    ELSE <<Len(df.rows), Len(df.rows)>>

\* validate_dataset, without the two counts the caller hands in unchanged and
\* without the amount summary
validate_dataset(df_analysis) ==
    [analysis_rows |-> Len(df_analysis.rows),
     null_refund_amount |-> null_audit(df_analysis, "refund_amount"),
     duplicates |-> duplicate_check(df_analysis)]

-----------------------------------------------------------------------------
(* metrics.py: sqri.  A float is the exact fraction <<numerator,            *)
(* denominator>> with a positive denominator; amounts are in pence.         *)

RECURSIVE Gcd(_, _)
Gcd(a, b) == IF b = 0 THEN a ELSE Gcd(b, a % b)

\* n / d in lowest terms (n >= 0, d > 0); n / 0 is kept as <<n, 0>>
Frac(n, d) ==
    IF d = 0 THEN <<n, 0>> ELSE <<n \div Gcd(n, d), d \div Gcd(n, d)>>

FracAdd(x, y) == Frac(x[1] * y[2] + y[1] * x[2], x[2] * y[2])

FracMul(x, y) == Frac(x[1] * y[1], x[2] * y[2])

FracEq(x, y) == x[1] * y[2] = y[1] * x[2]

FracLess(x, y) == x[1] * y[2] < y[1] * x[2]

\* SQRIWeights defaults 0.5, 0.3, 0.2
SQRIWeights(share, avg, high) ==
    [accommodation_share_weight |-> share,
     accommodation_avg_weight |-> avg,
     high_value_share_weight |-> high]

DefaultWeights == SQRIWeights(Frac(5, 10), Frac(3, 10), Frac(2, 10))

\* the positions of the rows of one site
RowsOfSite(rows, site) == {i \in 1..Len(rows) : rows[i]["site"] = site}

\* groupby("site")[...].sum() of the rows at positions idx: a function on
\* the sites that have such a row
GroupSum(rows, idx) ==
    [site \in {rows[i]["site"] : i \in idx} |->
        SumOver(RowsOfSite(rows, site) \cap idx,
                [i \in RowsOfSite(rows, site) \cap idx |-> Val(rows[i]["refund_amount"])])]

\* groupby("site")[...].mean(), in pence
GroupMean(rows, idx) ==
    [site \in {rows[i]["site"] : i \in idx} |->
        Frac(GroupSum(rows, idx)[site], Cardinality(RowsOfSite(rows, site) \cap idx))]

\* refund_amount > threshold
AboveThreshold(amount, threshold) == amount > threshold

\* refund_amount >= float(high_value_threshold)
IsHighValue(amount, threshold) == amount >= threshold

\* one cell of pd.concat([...], axis=1).fillna(0.0)
OrZero(series, site, zero) ==
    IF site \in DOMAIN series THEN series[site] ELSE zero

\* r["accommodation_value"] / r["total_value"] if r["total_value"] else 0.0
Share(accommodation_value, total_value) ==
    IF total_value # 0 THEN Frac(accommodation_value, total_value) ELSE Frac(0, 1)

\* sort_values("sqri_score", ascending=False): q is in an order the sort may
\* give, rows of equal score in any order
InDescendingScore(q) ==
    \A i \in 1..(Len(q) - 1) : ~FracLess(q[i].sqri_score, q[i + 1].sqri_score)

\* the rows of sqri before the sort, one per site
SqriRows(df, weights, high_value_threshold) ==
    LET d == Loc(df, [i \in 1..Len(df.rows) |->
                        df.rows[i]["refund_amount"] # Null /\ df.rows[i]["site"] # Null]).rows
        all == 1..Len(d)
        total_by_site == GroupSum(d, all)
        acc_mask == {i \in all :
                        d[i]["refund_category"] # Null
                        /\ Lower(d[i]["refund_category"]) = T_accommodation}
        acc_by_site == GroupSum(d, acc_mask)
        acc_avg_by_site == GroupMean(d, acc_mask)
        high_value_by_site ==
            [site \in DOMAIN total_by_site |->
                Frac(Cardinality({i \in RowsOfSite(d, site) :
                                     IsHighValue(Val(d[i]["refund_amount"]), high_value_threshold)}),
                     Cardinality(RowsOfSite(d, site)))]
    IN  {LET total_value == total_by_site[site]
             accommodation_value == OrZero(acc_by_site, site, 0)
             accommodation_avg == OrZero(acc_avg_by_site, site, Frac(0, 1))
             share == Share(accommodation_value, total_value)
             \* pence to pounds, then the / 100.0 of accommodation_avg_norm
             accommodation_avg_norm == FracMul(accommodation_avg, Frac(1, 100 * 100))
         IN  [site |-> site,
              total_value |-> total_value,
              accommodation_value |-> accommodation_value,
              accommodation_share_value |-> share,
              accommodation_avg |-> accommodation_avg,
              high_value_share |-> high_value_by_site[site],
              sqri_score |->
                  FracAdd(FracAdd(FracMul(share, weights.accommodation_share_weight),
                                  FracMul(accommodation_avg_norm,
                                          weights.accommodation_avg_weight)),
                          FracMul(high_value_by_site[site], weights.high_value_share_weight))]
         : site \in DOMAIN total_by_site}

\* the results sqri may return: the rows sorted by score, highest first (no
\* row for an empty frame)
sqri(df, weights, high_value_threshold) ==
    {q \in Enumerations(SqriRows(df, weights, high_value_threshold)) : InDescendingScore(q)}

-----------------------------------------------------------------------------
(* Bounded inputs                                                          *)

MaxRows == 2

\* every sequence over S of at most n elements
SeqsUpTo(S, n) ==
    UNION {[1..k -> S] : k \in 0..n}

\* the frames with the given columns, cells[c] being the cells column c may
\* hold, of at most n rows
Frames(columns, cells, n) ==
    LET all == UNION {cells[c] : c \in columns}
        rows == {r \in [columns -> all] : \A c \in columns : r[c] \in cells[c]}
    IN  {DataFrame(columns, q) : q \in SeqsUpTo(rows, n)}

Sp == <<" ">>

-----------------------------------------------------------------------------
(* Calls of is_refund_row / df.loc[refund_mask]                            *)

T_Sale == <<"S", "a", "l", "e">>
T_REFUND == <<"R", "E", "F", "U", "N", "D">>
T_Refu == <<"R", "e", "f", "u">>

FilterCells ==
    [c \in {"BUSINESS_FORMAT_DATE", "ROOM"} |->
        IF c = "BUSINESS_FORMAT_DATE"
        THEN {Null, T_Refund, T_Sale, T_Refu \o Sp \o <<"n", "d">>,
              <<"1", "6", "/", "0", "1">> \o Sp \o T_REFUND \o Sp \o T_accomm,
              <<"N", "o", "n", "r", "e", "f", "u", "n", "d", "a", "b", "l", "e">>}
        ELSE {<<"1", "0">>}]

FilterKeywords == {T_refund, T_Refund, T_nan, T_Sale}

FilterArgs ==
    {[df |-> df, config |-> CleaningConfig(DefaultMaxRefundAmount, kw), na_as_text |-> b] :
        df \in Frames({"BUSINESS_FORMAT_DATE", "ROOM"}, FilterCells, MaxRows)
               \cup Frames({"ROOM"}, FilterCells, MaxRows),
        kw \in FilterKeywords, b \in BOOLEAN}

InitFilter ==
    /\ pc = "call"
    /\ args \in FilterArgs
    /\ locals = NoLocals
    /\ ret = NoRet

CallRefundFilter ==
    /\ pc = "call"
    /\ pc' = "return"
    /\ ret' = RefundRows(args.df, args.config)
    /\ UNCHANGED <<args, locals>>

NextFilter == CallRefundFilter

SpecFilter == InitFilter /\ [][NextFilter]_vars

-----------------------------------------------------------------------------
(* Properties of the refund filter                                         *)

\* some slice of the lower-cased value is the lower-cased keyword
HasKeyword(value, keyword) ==
    LET v == Lower(value)
        k == Lower(keyword)
    IN  \E i \in 0..(Len(v) - Len(k)) : SubSeq(v, i + 1, i + Len(k)) = k

StatedRefundRow(df, config, row) ==
    /\ "BUSINESS_FORMAT_DATE" \in df.columns
    /\ row["BUSINESS_FORMAT_DATE"] # Null
    /\ HasKeyword(row["BUSINESS_FORMAT_DATE"], config.refund_keyword)

\* C9: a row passes the refund filter iff BUSINESS_FORMAT_DATE exists and its
\* value contains the configured keyword case-insensitively; a null value
\* never passes, an absent column passes no row, and the passing rows keep
\* their order.
C9_RefundFilter ==
    pc = "return" =>
        LET Passes(row) == StatedRefundRow(args.df, args.config, row)
        IN  ret.rows = SelectSeq(args.df.rows, Passes)

\* the same with the keyword no part of the text "nan"
C9_HoldsUnlessKeywordInNan ==
    ~HasKeyword(T_nan, args.config.refund_keyword) => C9_RefundFilter

-----------------------------------------------------------------------------
(* Calls of build_transaction_date                                         *)

D_15_01_2026 == <<"1", "5", "/", "0", "1", "/", "2", "0", "2", "6">>
D_16_01_2026 == <<"1", "6", "/", "0", "1", "/", "2", "0", "2", "6">>
D_03_04_2025 == <<"0", "3", "/", "0", "4", "/", "2", "0", "2", "5">>
T_na == <<"n", "/", "a">>

DateCells ==
    [c \in {"BUSINESS_DATE", "BUSINESS_TIME", "BUSINESS_FORMAT_DATE"} |->
        CASE c = "BUSINESS_DATE" -> {Null, D_03_04_2025, T_na}
          [] c = "BUSINESS_TIME" -> {Null, D_15_01_2026, T_na}
          [] c = "BUSINESS_FORMAT_DATE" -> {D_16_01_2026, D_16_01_2026 \o Sp \o T_Refund}]

DateColumnSets ==
    {{"BUSINESS_DATE", "BUSINESS_TIME", "BUSINESS_FORMAT_DATE"},
     {"BUSINESS_TIME", "BUSINESS_FORMAT_DATE"},
     {"BUSINESS_DATE", "BUSINESS_FORMAT_DATE"},
     {"BUSINESS_DATE", "BUSINESS_TIME"},
     {"BUSINESS_FORMAT_DATE"}, {"BUSINESS_DATE"}}

DateArgs ==
    {[df |-> df] : df \in UNION {Frames(cs, DateCells, MaxRows) : cs \in DateColumnSets}}

InitDate ==
    /\ pc = "call"
    /\ args \in DateArgs
    /\ locals = NoLocals
    /\ ret = NoRet

CallBuildTransactionDate ==
    /\ pc = "call"
    /\ pc' = "return"
    /\ ret' = build_transaction_date(args.df)
    /\ UNCHANGED <<args, locals>>

NextDate == CallBuildTransactionDate

SpecDate == InitDate /\ [][NextDate]_vars

-----------------------------------------------------------------------------
(* Properties of build_transaction_date                                    *)

PriorityFields == <<"BUSINESS_DATE", "BUSINESS_TIME", "BUSINESS_FORMAT_DATE">>

\* field k of the priority order is present and parses to a date for the row
YieldsDate(df, row, k) ==
    /\ PriorityFields[k] \in df.columns
    /\ to_datetime(row[PriorityFields[k]]) # Null

StatedDate(df, row) ==
    IF \E k \in 1..3 : YieldsDate(df, row, k)
    THEN LET first == CHOOSE k \in 1..3 :
                          YieldsDate(df, row, k) /\ \A j \in 1..(k - 1) : ~YieldsDate(df, row, j)
         IN  to_datetime(row[PriorityFields[first]])
    ELSE Null

-----------------------------------------------------------------------------
(* Calls of build_refund_amount                                            *)

R_1000_0 == <<"1", "0", "0", "0", ".", "0">>
R_m1000_0 == <<"-", "1", "0", "0", "0", ".", "0">>
R_1000_01 == <<"1", "0", "0", "0", ".", "0", "1">>
R_m1000_01 == <<"-", "1", "0", "0", "0", ".", "0", "1">>
R_m45_50 == <<"-", "4", "5", ".", "5", "0">>
R_45_5 == <<"4", "5", ".", "5">>
R_45_51 == <<"4", "5", ".", "5", "1">>
R_0 == <<"0">>
R_abc == <<"a", "b", "c">>
R_comma == <<"1", ",", "0", "0", "0">>

RoomTexts ==
    {R_1000_0, R_m1000_0, R_1000_01, R_m1000_01, R_m45_50, R_45_5, R_45_51, R_0,
     R_abc, R_comma}

AmountCells ==
    [c \in {"ROOM", "RECEIPT_NO"} |->
        IF c = "ROOM" THEN RoomTexts \cup {Null} ELSE {<<"7">>}]

\* a second, lower ceiling a caller may configure (45.50)
LowCeiling == Val(to_numeric(R_45_5))

AmountArgs ==
    {[df |-> df, config |-> CleaningConfig(m, T_refund)] :
        df \in Frames({"ROOM", "RECEIPT_NO"}, AmountCells, MaxRows)
               \cup Frames({"RECEIPT_NO"}, AmountCells, MaxRows),
        m \in {DefaultMaxRefundAmount, LowCeiling}}

InitAmount ==
    /\ pc = "call"
    /\ args \in AmountArgs
    /\ locals = NoLocals
    /\ ret = NoRet

CallBuildRefundAmount ==
    /\ pc = "call"
    /\ pc' = "return"
    /\ ret' = build_refund_amount(args.df, args.config)
    /\ UNCHANGED <<args, locals>>

NextAmount == CallBuildRefundAmount

SpecAmount == InitAmount /\ [][NextAmount]_vars

-----------------------------------------------------------------------------
(* Properties of build_refund_amount                                       *)

\* the ROOM texts that are numbers, with their value in pence
RoomPence(text) ==
    CASE text = R_1000_0 -> 100000
      [] text = R_m1000_0 -> 0 - 100000
      [] text = R_1000_01 -> 100001
      [] text = R_m1000_01 -> 0 - 100001
      [] text = R_m45_50 -> 0 - 4550
      [] text = R_45_5 -> 4550
      [] text = R_45_51 -> 4551
      [] text = R_0 -> 0

NotNumeric == {Null, R_abc, R_comma}

Magnitude(n) == IF n >= 0 THEN n ELSE 0 - n

StatedAmount(df, config, row) ==
    IF "ROOM" \notin df.columns \/ row["ROOM"] \in NotNumeric THEN Null
    ELSE IF Magnitude(RoomPence(row["ROOM"])) <= config.max_refund_amount
         THEN Num(Magnitude(RoomPence(row["ROOM"])))
         ELSE Null

\* C3: refund_amount is the absolute value of the numeric ROOM value when
\* that is at most the configured ceiling (inclusive: 1000.0 and -1000.0 give
\* 1000.0 under the default ceiling), and null when ROOM is unparsable,
\* absent, or above the ceiling (1000.01).
C3_AmountResolution ==
    pc = "return" =>
        /\ Len(ret) = Len(args.df.rows)
        /\ \A i \in 1..Len(ret) : ret[i] = StatedAmount(args.df, args.config, args.df.rows[i])

\* under the default ceiling, -1000.0 kept as 1000.0 beside 1000.01 suppressed
C3_Witness ==
    /\ pc = "return"
    /\ args.config.max_refund_amount = DefaultMaxRefundAmount
    /\ Len(ret) = 2
    /\ "ROOM" \in args.df.columns
    /\ args.df.rows[1]["ROOM"] = R_m1000_0
    /\ ret[1] = Num(100000)
    /\ args.df.rows[2]["ROOM"] = R_1000_01
    /\ ret[2] = Null

-----------------------------------------------------------------------------
(* Calls of clean_single_file                                              *)

T_Bar == <<"B", "a", "r">>
T_FOOD == <<"F", "O", "O", "D">>
N_Brighton_Nov == T_Brighton \o <<"_">> \o T_Nov \o DotCsv

CleanCells ==
    [c \in {"BUSINESS_FORMAT_DATE", "ROOM"} |->
        IF c = "BUSINESS_FORMAT_DATE"
        THEN {Null, T_Refund,
              T_Refund \o Sp \o T_Accommodation,
              T_Refund \o Sp \o T_Bar,
              T_refund \o Sp \o T_FOOD,
              T_Refund \o Sp \o T_FandB,
              T_Refund \o Sp \o T_accomm \o Sp \o T_Bar,
              T_Sale \o Sp \o T_accomm}
        ELSE {R_45_5, R_1000_01}]

CleanArgs ==
    {[filename |-> N_Brighton_Nov, raw |-> df, config |-> DefaultConfig, na_as_text |-> b] :
        df \in Frames({"BUSINESS_FORMAT_DATE", "ROOM"}, CleanCells, MaxRows)
               \cup Frames({"ROOM"}, CleanCells, MaxRows),
        b \in BOOLEAN}

InitClean ==
    /\ pc = "call"
    /\ args \in CleanArgs
    /\ locals = NoLocals
    /\ ret = NoRet

CallCleanSingleFile ==
    /\ pc = "call"
    /\ pc' = "return"
    /\ ret' = clean_single_file(args.filename, args.raw, args.config)
    /\ UNCHANGED <<args, locals>>

NextClean == CallCleanSingleFile

SpecClean == InitClean /\ [][NextClean]_vars

-----------------------------------------------------------------------------
(* Properties of clean_single_file                                         *)

StatedCategory(value) ==
    IF HasKeyword(value, T_accomm) THEN T_Accommodation
    ELSE IF HasKeyword(value, T_fandb) \/ HasKeyword(value, T_food) \/ HasKeyword(value, T_bar)
    THEN T_FandB
    ELSE T_Other

\* C1: for every retained row, refund_category is "Accommodation" if the
\* lower-cased BUSINESS_FORMAT_DATE contains "accomm", otherwise "F&B" if it
\* contains "f&b", "food" or "bar", otherwise "Other"; a value with both
\* "accomm" and "bar" is "Accommodation".
C1_CategoryPrecedence ==
    pc = "return" =>
        \A i \in 1..Len(ret.rows) :
            ret.rows[i]["refund_category"] =
                IF "BUSINESS_FORMAT_DATE" \in ret.columns
                THEN StatedCategory(ret.rows[i]["BUSINESS_FORMAT_DATE"])
                ELSE T_Other

\* the same for the rows whose value does not hold "accomm" together with
\* one of the F&B words
C1_HoldsWithoutOverlap ==
    pc = "return" =>
        \A i \in 1..Len(ret.rows) :
            LET value == ret.rows[i]["BUSINESS_FORMAT_DATE"]
            IN  \/ /\ HasKeyword(value, T_accomm)
                   /\ HasKeyword(value, T_fandb) \/ HasKeyword(value, T_food)
                      \/ HasKeyword(value, T_bar)
                \/ ret.rows[i]["refund_category"] = StatedCategory(value)

-----------------------------------------------------------------------------
(* Runs of clean_all_files followed by validate_dataset                    *)

MaxFiles == 3

N_Brighton == T_Brighton \o DotCsv
N_brighton_dec == T_brighton \o <<"_">> \o T_dec \o DotCsv
N_NewHeaven_January == T_NewHeaven \o <<"_">> \o T_January \o DotCsv
N_Leeds_March == T_Leeds \o <<"_">> \o T_March \o DotCsv
N_Leeds_Nov_txt == T_Leeds \o <<"_">> \o T_Nov \o <<".", "t", "x", "t">>

DirectoryNames ==
    {N_Brighton_Nov, N_brighton_dec, N_NewHeaven_January, N_Leeds_March, N_Brighton,
     N_Leeds_Nov_txt}

RawColumns == {"BUSINESS_FORMAT_DATE", "BUSINESS_DATE", "ROOM", "RECEIPT_NO"}

RawRow(bfd, date, room, receipt) ==
    [c \in RawColumns |->
        CASE c = "BUSINESS_FORMAT_DATE" -> bfd
          [] c = "BUSINESS_DATE" -> date
          [] c = "ROOM" -> room
          [] c = "RECEIPT_NO" -> receipt]

Row_good == RawRow(T_Refund \o Sp \o T_Accommodation, D_03_04_2025, R_m45_50, <<"7">>)
Row_edge == RawRow(T_REFUND, Null, R_1000_0, <<"8">>)
Row_over == RawRow(T_Refund \o Sp \o T_Bar, D_15_01_2026, R_1000_01, <<"9">>)
Row_text == RawRow(T_Refund, D_15_01_2026, R_abc, <<"9">>)
Row_blank == RawRow(T_Refund, D_15_01_2026, Null, Null)
Row_sale == RawRow(T_Sale, D_15_01_2026, R_45_5, <<"7">>)

\* a frame with an export padding column
PaddedFrame ==
    WithColumn(DataFrame(RawColumns, <<Row_edge, Row_blank>>), "Unnamed: 0", <<Null, Null>>)

\* a frame without ROOM
RoomlessFrame ==
    LET columns == RawColumns \ {"ROOM"}
    IN  DataFrame(columns, <<[c \in columns |-> Row_good[c]]>>)

\* a frame with a refund above the ceiling and a row that is no refund
OverFrame == DataFrame(RawColumns, <<Row_good, Row_over, Row_sale, Row_good>>)

\* a frame with a refund whose ROOM is no number
TextFrame == DataFrame(RawColumns, <<Row_text, Row_good, Row_edge>>)

RawFrames == {OverFrame, TextFrame, PaddedFrame, RoomlessFrame}

Directories ==
    UNION {[names -> RawFrames] :
              names \in {S \in SUBSET DirectoryNames : Cardinality(S) <= MaxFiles}}

AssembleArgs ==
    {[raw_dir |-> d, config |-> DefaultConfig, na_as_text |-> b] :
        d \in Directories, b \in BOOLEAN}

InitAssemble ==
    /\ pc = "glob"
    /\ args \in AssembleArgs
    /\ locals = NoLocals
    /\ ret = NoRet

\* paths = sorted(raw_dir.glob("*.csv")), the directory enumerated in any order
Glob ==
    /\ pc = "glob"
    /\ \E order \in Enumerations(glob_csv(args.raw_dir)) :
           locals' = [paths |-> sorted(order), frames |-> <<>>, i |-> 1]
    /\ pc' = "check"
    /\ UNCHANGED <<args, ret>>

\* if not paths: raise FileNotFoundError
RaiseNoInput ==
    /\ pc = "check"
    /\ locals.paths = <<>>
    /\ pc' = "raised"
    /\ ret' = FileNotFoundError
    /\ UNCHANGED <<args, locals>>

StartCleaning ==
    /\ pc = "check"
    /\ locals.paths # <<>>
    /\ pc' = "clean"
    /\ UNCHANGED <<args, locals, ret>>

\* CleanFile with a file whose name does not resolve skipped
CleanFile_skipping ==
    /\ pc = "clean"
    /\ locals.i <= Len(locals.paths)
    /\ LET p == locals.paths[locals.i]
           frame == clean_single_file(p, args.raw_dir[p], args.config)
       IN  locals' = [locals EXCEPT !.i = @ + 1,
                                    !.frames = IF IsError(frame) THEN @ ELSE Append(@, frame)]
    /\ UNCHANGED <<pc, args, ret>>

\* the next clean_single_file of the list comprehension; its ValueError ends
\* clean_all_files
CleanFile ==
    /\ pc = "clean"
    /\ locals.i <= Len(locals.paths)
    /\ LET p == locals.paths[locals.i]
           frame == clean_single_file(p, args.raw_dir[p], args.config)
       IN  IF IsError(frame)
           THEN /\ pc' = "raised"
                /\ ret' = frame
                /\ UNCHANGED locals
           ELSE /\ locals' = [locals EXCEPT !.i = @ + 1, !.frames = Append(@, frame)]
                /\ UNCHANGED <<pc, ret>>
    /\ UNCHANGED args

\* out = pd.concat(frames, ignore_index=True); return out
Concat ==
    /\ pc = "clean"
    /\ locals.i > Len(locals.paths)
    /\ pc' = "done"
    /\ ret' = concat(locals.frames)
    /\ UNCHANGED <<args, locals>>

\* validate_dataset on the consolidated table
Validate ==
    /\ pc = "done"
    /\ pc' = "validated"
    /\ locals' = [paths |-> locals.paths, frames |-> locals.frames, i |-> locals.i,
                  report |-> validate_dataset(ret)]
    /\ UNCHANGED <<args, ret>>

NextAssemble ==
    \/ Glob
    \/ RaiseNoInput
    \/ StartCleaning
    \/ CleanFile
    \/ Concat
    \/ Validate

SpecAssemble == InitAssemble /\ [][NextAssemble]_vars

-----------------------------------------------------------------------------
(* Properties of clean_all_files                                           *)

\* a raw row that passes the refund filter
IsRefund(df, config, row) == StatedRefundRow(df, config, row)

\* ... and whose ROOM resolves to an amount
IsUsable(df, config, row) ==
    /\ IsRefund(df, config, row)
    /\ "ROOM" \in df.columns
    /\ to_numeric(row["ROOM"]) # Null
    /\ Magnitude(Val(to_numeric(row["ROOM"]))) <= config.max_refund_amount

UsableCount(df, config) ==
    Cardinality({i \in 1..Len(df.rows) : IsUsable(df, config, df.rows[i])})

Assembled == pc \in {"done", "validated"}

\* C2: every row of the consolidated table has a non-null refund_amount; a
\* refund row whose amount resolves to null (ROOM absent, unparsable or above
\* the ceiling) is dropped in normalisation, is in no frame and not in the
\* table handed to validation, and is not counted in analysis_rows.
C2_NoNullAmount ==
    LET names == glob_csv(args.raw_dir)
        usable == SumOver(names, [n \in names |-> UsableCount(args.raw_dir[n], args.config)])
    IN  /\ pc \in {"clean", "done", "validated"} =>
               \A k \in 1..Len(locals.frames) : \A i \in 1..Len(locals.frames[k].rows) :
                   locals.frames[k].rows[i]["refund_amount"] # Null
        /\ Assembled =>
               /\ \A i \in 1..Len(ret.rows) : ret.rows[i]["refund_amount"] # Null
               /\ Len(ret.rows) = usable
        /\ pc = "validated" =>
               /\ locals.report.analysis_rows = usable
               /\ locals.report.null_refund_amount[1] = 0

\* a validated table with rows, from three files holding refund rows whose
\* ROOM is above the ceiling, unparsable and absent
C2_Witness ==
    /\ pc = "validated"
    /\ locals.report.analysis_rows > 0
    /\ \A df \in {OverFrame, TextFrame, RoomlessFrame} :
           \E n \in glob_csv(args.raw_dir) : args.raw_dir[n] = df

\* the names in ascending order
Ascending(names) ==
    CHOOSE q \in Enumerations(names) : \A i \in 1..(Len(q) - 1) : StrLess(q[i], q[i + 1])

RECURSIVE BatchRows(_)
\* the rows of the per-file batches of the files of order, one batch after
\* another
BatchRows(order) ==
    IF order = <<>> THEN <<>>
    ELSE clean_single_file(Head(order), args.raw_dir[Head(order)], args.config).rows
         \o BatchRows(Tail(order))

\* as many rows, each with the cells of its batch row
SameRows(table, batches) ==
    /\ Len(table) = Len(batches)
    /\ \A r \in 1..Len(batches) : \A c \in DOMAIN batches[r] : table[r][c] = batches[r][c]

\* C6: the consolidated table is the concatenation of the per-file batches
\* in sorted file-name order, each batch in its row order, no row removed,
\* merged or reordered, its row count the sum of the batch sizes, whatever
\* the order of enumeration.
C6_AssemblyOrder ==
    Assembled =>
        /\ locals.paths = Ascending(glob_csv(args.raw_dir))
        /\ SameRows(ret.rows, BatchRows(Ascending(glob_csv(args.raw_dir))))

\* three files assembled, the table holding the same row twice in a row
\* and again from another file
C6_Witness ==
    /\ pc = "done"
    /\ Len(locals.paths) = 3
    /\ \E i, j \in 1..Len(ret.rows) :
           /\ j > i + 1
           /\ ret.rows[i] = ret.rows[i + 1]
           /\ ret.rows[i]["RECEIPT_NO"] = ret.rows[j]["RECEIPT_NO"]
           /\ ret.rows[i]["site"] # ret.rows[j]["site"]

Unresolvable(n) == IsError(parse_site_and_month_from_filename(n))

\* the position in order of the first file whose name does not resolve
FirstBad(order) ==
    CHOOSE k \in 1..Len(order) :
        Unresolvable(order[k]) /\ \A j \in 1..(k - 1) : ~Unresolvable(order[j])

\* what a run may show when some name of order does not resolve
FailsAtFirstBad(order, first) ==
    /\ ~Assembled
    /\ pc = "clean" => Len(locals.frames) < first
    /\ pc = "raised" =>
           /\ ret = parse_site_and_month_from_filename(order[first])
           /\ Len(locals.frames) = first - 1

\* C10: with no candidate file, assembly fails at once with the no-input
\* error; with a file whose name does not resolve, assembly fails with that
\* file's error once the files ahead of it are normalised, the file is not
\* skipped, nothing runs after the failure and no table is returned.
C10_FatalFileErrors ==
    LET names == glob_csv(args.raw_dir)
    IN  /\ (names = {} /\ pc \notin {"glob", "check"}) =>
               /\ pc = "raised"
               /\ ret = FileNotFoundError
               /\ locals.frames = <<>>
        /\ (\E n \in names : Unresolvable(n)) =>
               FailsAtFirstBad(Ascending(names), FirstBad(Ascending(names)))
        /\ pc = "raised" =>
               /\ IsError(ret)
               /\ names = {} \/ \E n \in names : Unresolvable(n)
               /\ ~ENABLED NextAssemble

\* a month that does not resolve, met after a file was normalised
C10_Witness ==
    /\ pc = "raised"
    /\ ret = ValueError("month")
    /\ Len(locals.frames) >= 1

-----------------------------------------------------------------------------
(* Calls of sqri on tables the pipeline can produce                        *)

MaxSqriRows == 3

\* 50.00, also a threshold a caller may supply in place of the default
HalfThreshold == DefaultHighValueThreshold \div 2

SqriCells ==
    [c \in {"site", "refund_amount", "refund_category"} |->
        CASE c = "site" -> {T_Brighton, T_Newhaven}
          [] c = "refund_amount" -> {Num(0), Num(HalfThreshold), Num(DefaultHighValueThreshold)}
          [] c = "refund_category" -> {T_Accommodation, T_FandB}]

\* weights a caller may supply in place of the defaults
OtherWeights == SQRIWeights(Frac(1, 10), Frac(2, 1), Frac(0, 1))


SqriArgs ==
    {[df |-> df, weights |-> w, high_value_threshold |-> t] :
        df \in Frames({"site", "refund_amount", "refund_category"}, SqriCells, MaxSqriRows),
        w \in {DefaultWeights, OtherWeights},
        t \in {DefaultHighValueThreshold, HalfThreshold}}

InitSqri ==
    /\ pc = "call"
    /\ args \in SqriArgs
    /\ locals = NoLocals
    /\ ret = NoRet

CallSqri ==
    /\ pc = "call"
    /\ pc' = "return"
    /\ ret' \in sqri(args.df, args.weights, args.high_value_threshold)
    /\ UNCHANGED <<args, locals>>

NextSqri == CallSqri

SpecSqri == InitSqri /\ [][NextSqri]_vars

-----------------------------------------------------------------------------
(* Properties of sqri                                                      *)

\* the sum of the amounts, in pence, of the rows of df at the positions idx
AmountSum(df, idx) ==
    SumOver(idx, [i \in idx |-> Val(df.rows[i]["refund_amount"])])

StatedSqriRow(df, weights, threshold, r) ==
    LET of_site == {i \in 1..Len(df.rows) : df.rows[i]["site"] = r.site}
        acc_rows == {i \in of_site : df.rows[i]["refund_category"] = T_Accommodation}
        high_rows == {i \in of_site : Val(df.rows[i]["refund_amount"]) >= threshold}
        total == AmountSum(df, of_site)
        acc == AmountSum(df, acc_rows)
        share == IF total = 0 THEN Frac(0, 1) ELSE Frac(acc, total)
        avg == IF acc_rows = {} THEN Frac(0, 1) ELSE Frac(acc, Cardinality(acc_rows))
        high == Frac(Cardinality(high_rows), Cardinality(of_site))
    IN  /\ of_site # {}
        /\ r.total_value = total
        /\ r.accommodation_value = acc
        /\ r.accommodation_share_value[2] > 0
        /\ FracEq(r.accommodation_share_value, share)
        /\ total = 0 => r.accommodation_share_value[1] = 0
        /\ FracEq(r.accommodation_avg, avg)
        /\ FracEq(r.high_value_share, high)
        /\ r.sqri_score[2] > 0
        \* weights per unit, the average in pounds divided by 100
        /\ FracEq(r.sqri_score,
                  FracAdd(FracAdd(FracMul(share, weights.accommodation_share_weight),
                                  FracMul(FracMul(avg, Frac(1, 10000)),
                                          weights.accommodation_avg_weight)),
                          FracMul(high, weights.high_value_share_weight)))

\* C7: per site, accommodation_share = accommodation_value / total_value and
\* 0 when total_value is 0, accommodation_avg is the mean of the site's
\* Accommodation amounts and 0 when it has none, high_value_share is the
\* fraction of the site's refunds at or above the threshold, the score is
\* share * w1 + (avg / 100) * w2 + high * w3, one row per site, and the rows
\* are sorted by score in descending order.
C7_Sqri ==
    pc = "return" =>
        /\ \A k \in 1..Len(ret) :
               StatedSqriRow(args.df, args.weights, args.high_value_threshold, ret[k])
        /\ \A s \in {args.df.rows[i]["site"] : i \in 1..Len(args.df.rows)} :
               Cardinality({k \in 1..Len(ret) : ret[k].site = s}) = 1
        /\ \A j, k \in 1..Len(ret) :
               j < k => ~FracLess(ret[j].sqri_score, ret[k].sqri_score)

\* two sites under the default weights and threshold: one whose refunds are
\* all 0 (share 0), one with an Accommodation refund of exactly 100.00
C7_Witness ==
    /\ pc = "return"
    /\ args.weights = DefaultWeights
    /\ args.high_value_threshold = DefaultHighValueThreshold
    /\ Len(ret) = 2
    /\ ret[1].total_value = DefaultHighValueThreshold
    /\ FracEq(ret[1].high_value_share, Frac(1, 1))
    /\ FracEq(ret[1].sqri_score, Frac(10, 10))
    /\ ret[2].total_value = 0
    /\ FracEq(ret[2].accommodation_share_value, Frac(0, 1))
    /\ FracEq(ret[2].sqri_score, Frac(0, 1))

-----------------------------------------------------------------------------
(* Calls of duplicate_check                                                *)

MaxDupRows == 3

DupCells ==
    [c \in {"site", "transaction_date", "RECEIPT_NO", "refund_amount"} |->
        CASE c = "site" -> {T_Brighton}
          [] c = "transaction_date" -> {Null, <<2026, 1, 15>>}
          [] c = "RECEIPT_NO" -> {<<"R", "7">>, <<"R", "8">>}
          [] c = "refund_amount" -> {Num(4550), Num(100000)}]

DupColumnSets ==
    {{"site", "transaction_date", "RECEIPT_NO", "refund_amount"},
     {"site", "transaction_date", "refund_amount"},
     {"site", "refund_amount"}}

DupArgs ==
    {[df |-> df] : df \in UNION {Frames(cs, DupCells, MaxDupRows) : cs \in DupColumnSets}}

InitDup ==
    /\ pc = "call"
    /\ args \in DupArgs
    /\ locals = NoLocals
    /\ ret = NoRet

CallDuplicateCheck ==
    /\ pc = "call"
    /\ pc' = "return"
    /\ ret' = duplicate_check(args.df)
    /\ UNCHANGED <<args, locals>>

NextDup == CallDuplicateCheck

SpecDup == InitDup /\ [][NextDup]_vars

-----------------------------------------------------------------------------
(* Properties of duplicate_check                                           *)

KeyColumns == {"site", "transaction_date", "RECEIPT_NO", "refund_amount"}

\* the positions of the rows with the key tuple of row i
KeyGroup(df, i) ==
    {j \in 1..Len(df.rows) : \A c \in KeyColumns : df.rows[j][c] = df.rows[i][c]}

\* C8: duplicate_rows is the number of rows in a group of at least 2 rows
\* with an identical key tuple (site, transaction_date, RECEIPT_NO,
\* refund_amount), distinct_duplicate_keys the number of such groups, so
\* duplicate_rows >= 2 * distinct_duplicate_keys; with a key column absent
\* the check reports duplicate_rows = 0 and the number of missing columns.
C8_DuplicateCheck ==
    pc = "return" =>
        IF KeyColumns \subseteq args.df.columns
        THEN LET n == Len(args.df.rows)
                 groups == {KeyGroup(args.df, i) : i \in 1..n}
                 dup == {g \in groups : Cardinality(g) >= 2}
             IN  /\ DOMAIN ret = {"duplicate_rows", "distinct_duplicate_keys"}
                 /\ ret.duplicate_rows = Cardinality(UNION dup)
                 /\ ret.distinct_duplicate_keys = Cardinality(dup)
                 /\ ret.duplicate_rows >= 2 * ret.distinct_duplicate_keys
        ELSE /\ DOMAIN ret = {"duplicate_rows", "note_missing_key_cols"}
             /\ ret.duplicate_rows = 0
             /\ ret.note_missing_key_cols = Cardinality(KeyColumns \ args.df.columns)

\* two rows sharing the full key and a third sharing site and date only
C8_Witness ==
    /\ pc = "return"
    /\ KeyColumns \subseteq args.df.columns
    /\ Len(args.df.rows) = 3
    /\ args.df.rows[1] = args.df.rows[2]
    /\ args.df.rows[3]["site"] = args.df.rows[1]["site"]
    /\ args.df.rows[3]["transaction_date"] = args.df.rows[1]["transaction_date"]
    /\ args.df.rows[3]["RECEIPT_NO"] # args.df.rows[1]["RECEIPT_NO"]
    /\ ret.duplicate_rows = 2
    /\ ret.distinct_duplicate_keys = 1

-----------------------------------------------------------------------------
(* Calls of parse_site_and_month_from_filename on bounded file names       *)

MaxNameChunks == 4

NameChunks ==
    {T_Brighton, T_NewHeaven, T_Leeds, T_Nov, T_January, T_March,
     <<"_">>, DotCsv, <<" ">>, <<"d", "/">>}

RECURSIVE ChunkSeqs(_, _)
\* every sequence of at most n chunks
ChunkSeqs(chunks, n) ==
    IF n = 0 THEN {<<>>}
    ELSE LET shorter == ChunkSeqs(chunks, n - 1)
         IN  shorter \cup {Append(q, c) : q \in shorter, c \in chunks}

InitResolve ==
    /\ pc = "call"
    /\ args \in {[filename |-> Cat(q)] : q \in ChunkSeqs(NameChunks, MaxNameChunks)}
    /\ locals = NoLocals
    /\ ret = NoRet

Resolve ==
    /\ pc = "call"
    /\ pc' = "return"
    /\ ret' = parse_site_and_month_from_filename(args.filename)
    /\ UNCHANGED <<args, locals>>

NextResolve == Resolve

SpecResolve == InitResolve /\ [][NextResolve]_vars

-----------------------------------------------------------------------------
(* Properties of parse_site_and_month_from_filename                        *)

EndsWith(s, suffix) ==
    Len(s) >= Len(suffix) /\ StartsWithAt(s, Len(s) - Len(suffix) + 1, suffix)

\* the name without its directory and without one trailing ".csv"
StatedStem(filename) ==
    LET name == PathName(filename)
    IN  IF EndsWith(name, DotCsv) THEN SubSeq(name, 1, Len(name) - Len(DotCsv)) ELSE name

StatedSegments(filename) == Split(StatedStem(filename), "_")

MonthTokens == {T_november, T_nov, T_december, T_dec, T_january, T_jan}

StatedToFail(filename) ==
    \/ Len(StatedSegments(filename)) < 2
    \/ Lower(StatedSegments(filename)[2]) \notin MonthTokens

StatedPeriod(token) ==
    IF token \in {T_november, T_nov} THEN T_Nov2025
    ELSE IF token \in {T_december, T_dec} THEN T_Dec2025
    ELSE T_Jan2026

StatedSite(seg) ==
    IF Lower(seg) = T_brighton THEN T_Brighton
    ELSE IF Lower(seg) \in {T_newheaven, T_newhaven} THEN T_Newhaven
    ELSE seg

\* C5: resolve strips the directory and only a trailing ".csv", splits on
\* "_", fails iff fewer than 2 segments result or lower-cased segment 1 is no
\* month token, and otherwise returns the token's period and, as site, the
\* canonical name or segment 0 unchanged.
C5_FileNameResolution ==
    pc = "return" =>
        IF StatedToFail(args.filename) THEN IsError(ret)
        ELSE /\ ~IsError(ret)
             /\ ret.file_month = StatedPeriod(Lower(StatedSegments(args.filename)[2]))
             /\ ret.site = StatedSite(StatedSegments(args.filename)[1])

\* names that hold ".csv" at the end only, if at all, and no blank
PlainName(filename) ==
    /\ ~Contains(StatedStem(filename), DotCsv)
    /\ ~Contains(filename, Sp)

\* on plain names the code resolves as C5 states
C5_HoldsOnPlainNames ==
    PlainName(args.filename) => C5_FileNameResolution

====
